---- MODULE Spec2Model ----
(***************************************************************************)
(* Model of the log writer (logger.py: timestamp, append_log, commit_log)  *)
(* and of the HTTP log endpoint (log_server.py: log_text), which append to *)
(* the same file logs/txt.log.                                             *)
(*                                                                         *)
(* Strings are sequences of one-character strings, byte strings are        *)
(* sequences of integers in 0..255.                                        *)
(***************************************************************************)
EXTENDS Integers, Sequences, FiniteSets, TLC

VARIABLES
    file,      \* content of logs/txt.log
    commits,   \* messages of the commits in the local repository, oldest first
    remote,    \* the commits that were pushed upstream
    last,      \* what the last completed call did and returned
    prev,      \* the same for the call before it
    nOps,      \* number of calls made so far
    pc,        \* concurrent writers: position of each process in append_log
    pline,     \* concurrent writers: the line each process built
    ppos,      \* concurrent writers: end of file seen when the file was opened
    written,   \* concurrent writers: the data of each write, in the order made
    returned   \* concurrent writers: number of append_log calls that returned

vars == <<file, commits, remote, last, prev, nOps, pc, pline, ppos, written, returned>>

----------------------------------------------------------------------------
(* Bounds *)

MaxOps == 2          \* calls per run of the sequential specification
MaxCalls == 2        \* append_log calls per run of the concurrent specification
NumProcs == 2        \* processes of the concurrent specification

----------------------------------------------------------------------------
(* Strings *)

LF == "\n"

Str_INFO == <<"I", "N", "F", "O">>
Str_IN == <<"I", "N">>
Str_UTC == <<" ", "U", "T", "C">>
Str_committed == <<"c", "o", "m", "m", "i", "t", "t", "e", "d">>
Str_and_pushed == <<" ", "a", "n", "d", " ", "p", "u", "s", "h", "e", "d">>
Str_git_not_found == <<"g", "i", "t", " ", "n", "o", "t", " ", "f", "o", "u", "n", "d">>
Str_tool_not_found == <<"t", "o", "o", "l", " ", "n", "o", "t", " ", "f", "o", "u", "n", "d">>
Str_Auto_log_update == <<"A", "u", "t", "o", " ", "l", "o", "g", " ", "u", "p", "d", "a", "t", "e", ":", " ">>
Str_Expected_JSON == <<"E", "x", "p", "e", "c", "t", "e", "d", " ", "J", "S", "O", "N">>

Digits == <<"0", "1", "2", "3", "4", "5", "6", "7", "8", "9">>

IsDigit(c) == \E i \in 1..10 : Digits[i] = c

RECURSIVE Pad(_, _)
\* n in decimal, zero-padded to w digits (strftime's fixed-width fields)
Pad(n, w) == IF w = 0 THEN <<>> ELSE Pad(n \div 10, w - 1) \o <<Digits[(n % 10) + 1]>>

IsPrefix(s, t) == Len(s) <= Len(t) /\ SubSeq(t, 1, Len(s)) = s

RECURSIVE Count(_, _)
\* number of occurrences of the character c in s
Count(s, c) == IF s = <<>> THEN 0
               ELSE (IF Head(s) = c THEN 1 ELSE 0) + Count(Tail(s), c)

RECURSIVE Split(_)
\* s.split("\n"): the newline-delimited segments of s
Split(s) ==
    IF \A i \in 1..Len(s) : s[i] # LF THEN <<s>>
    ELSE LET i == CHOOSE j \in 1..Len(s) : s[j] = LF /\ \A k \in 1..(j - 1) : s[k] # LF
         IN <<SubSeq(s, 1, i - 1)>> \o Split(SubSeq(s, i + 1, Len(s)))

\* the complete (newline-terminated) lines of a file
Lines(s) == LET parts == Split(s) IN SubSeq(parts, 1, Len(parts) - 1)

\* wc -l: the number of newline characters
LineCount(s) == Count(s, LF)

----------------------------------------------------------------------------
(* Clock and timestamp *)

\* readings of datetime.utcnow()
Clocks == {
    [Y |-> 2024, M |-> 1, D |-> 1, h |-> 0, m |-> 0, s |-> 0, us |-> 0],
    [Y |-> 2024, M |-> 12, D |-> 31, h |-> 23, m |-> 59, s |-> 59, us |-> 999999] }

\* strftime("%Y-%m-%d %H:%M:%S.%f")
strftime(t) ==
    Pad(t.Y, 4) \o <<"-">> \o Pad(t.M, 2) \o <<"-">> \o Pad(t.D, 2) \o <<" ">>
    \o Pad(t.h, 2) \o <<":">> \o Pad(t.m, 2) \o <<":">> \o Pad(t.s, 2)
    \o <<".">> \o Pad(t.us, 6)

\* strftime(...)[:-3] + " UTC"
timestamp(t) == LET f == strftime(t) IN SubSeq(f, 1, Len(f) - 3) \o Str_UTC

----------------------------------------------------------------------------
(* The file system *)

\* how a file operation ends: no error, open() raises, or the write raises
\* (at close, when the buffer is flushed)
FsOutcomes == {"ok", "open_error", "write_error"}

\* open(LOG_FILE, "w") instead: the file is emptied
OpenTruncate(content) == <<>>

\* open(LOG_FILE, "a"): the content of the file once it is open
OpenAppend(content) == content

\* a write on a descriptor that is not in append mode: the data goes to the
\* offset pos
WriteAtOffset(content, pos, data) ==
    SubSeq(content, 1, pos) \o data \o SubSeq(content, pos + Len(data) + 1, Len(content))

\* a write on a descriptor opened in append mode: the data goes to the current
\* end of the file, whatever the end of file pos was when it was opened
WriteAppend(content, pos, data) == content \o data

\* what a write of data that fails may leave in the file: nothing, or all of
\* it but the last character
PartialLens(data) == {0, Len(data) - 1}

\* with open(LOG_FILE, "a") as f: f.write(data) -- the file afterwards; k is
\* the number of characters that reached the file when the write fails
AppendToFile(content, data, fs, k) ==
    IF fs = "open_error" THEN content
    ELSE LET c == OpenAppend(content)
         IN WriteAppend(c, Len(c), IF fs = "ok" THEN data ELSE SubSeq(data, 1, k))

\* the inputs (fs, k) that describe the same outcome once
FsChoice(data, fs, k) ==
    IF fs = "write_error" THEN k \in PartialLens(data) ELSE k = 0

----------------------------------------------------------------------------
(* Records of calls *)

None == <<"None">>
LOG_FILE == <<"logs/txt.log">>

NoCall == [op |-> "none", outcome |-> "none", pre |-> <<>>, entry |-> <<>>,
           ts |-> <<>>, kind |-> <<>>, text |-> <<>>, fs |-> "none", writes |-> 0,
           ret |-> None, ok |-> FALSE, out |-> <<>>, push |-> FALSE,
           invoked |-> <<>>, outcomes |-> <<>>, output |-> <<>>, msg |-> <<>>,
           repo |-> 0, code |-> 0, json |-> FALSE, status |-> "none",
           req |-> "none"]

----------------------------------------------------------------------------
(* logger.py: append_log *)

\* the (text, kind) arguments of the calls
AppendArgs == {
    [text |-> <<>>, kind |-> Str_INFO],
    [text |-> <<"h", "i">>, kind |-> Str_IN],
    [text |-> <<"a", LF, "b">>, kind |-> Str_INFO] }

\* f"[{timestamp()}] [{kind}] {text}\n"
LogLine(now, kind, text) ==
    <<"[">> \o timestamp(now) \o <<"]", " ", "[">> \o kind \o <<"]", " ">> \o text \o <<LF>>

\* the call append_log(text, kind) made on the file content: what it did and
\* how it ended
append_log(content, text, kind, now, fs) ==
    [NoCall EXCEPT !.op = "append_log", !.pre = content,
                   !.entry = LogLine(now, kind, text),
                   !.ts = timestamp(now), !.kind = kind, !.text = text,
                   !.fs = fs, !.writes = IF fs = "open_error" THEN 0 ELSE 1,
                   !.outcome = IF fs = "ok" THEN "returned" ELSE "raised",
                   !.ret = IF fs = "ok" THEN LOG_FILE ELSE None]

AppendLog(a, now, fs, k) ==
    /\ nOps < MaxOps
    /\ FsChoice(LogLine(now, a.kind, a.text), fs, k)
    /\ file' = AppendToFile(file, LogLine(now, a.kind, a.text), fs, k)
    /\ last' = append_log(file, a.text, a.kind, now, fs)
    /\ prev' = last
    /\ nOps' = nOps + 1
    /\ UNCHANGED <<commits, remote, pc, pline, ppos, written, returned>>

----------------------------------------------------------------------------
(* log_server.py: POST /log *)

\* values of the "text" member of the posted object
TextValues == {
    [t |-> "missing", v |-> <<>>],
    [t |-> "null", v |-> <<>>],
    [t |-> "str", v |-> <<"h", "i">>] }

\* POST requests: the content type says JSON or not; the body does not parse,
\* or parses to an array, to null or to an object
Requests ==
    { [is_json |-> FALSE, body |-> "none", text |-> [t |-> "missing", v |-> <<>>]] }
    \cup { [is_json |-> TRUE, body |-> b, text |-> [t |-> "missing", v |-> <<>>]] :
              b \in {"malformed", "array", "null"} }
    \cup { [is_json |-> TRUE, body |-> "object", text |-> tv] : tv \in TextValues }

\* text = payload.get("text", ""); if text is None: text = ""
PayloadText(tv) ==
    CASE tv.t = "missing" -> <<>>
      [] tv.t = "null" -> <<>>
      [] tv.t = "str" -> tv.v

\* f"[{ts}] {text}\n"
ServerEntry(now, text) == <<"[">> \o timestamp(now) \o <<"]", " ">> \o text \o <<LF>>

\* whether the handler reaches the write for this request
ServerWrites(req) == req.is_json /\ req.body = "object"

\* the handling of a POST /log request: what it did and the response
log_text(content, req, now, fs) ==
    LET base == [NoCall EXCEPT !.op = "log_text", !.pre = content, !.req = req.body,
                               !.outcome = "returned"]
    IN IF ~req.is_json
       THEN [base EXCEPT !.code = 400, !.json = TRUE, !.status = "error",
                         !.out = Str_Expected_JSON]
       ELSE IF req.body = "malformed"
       THEN \* get_json() raises BadRequest: the framework's 400 page
            [base EXCEPT !.code = 400, !.json = FALSE]
       ELSE IF req.body # "object"
       THEN \* payload.get raises AttributeError: the framework's 500 page
            [base EXCEPT !.code = 500, !.json = FALSE]
       ELSE LET text == PayloadText(req.text)
            IN [base EXCEPT !.text = text, !.ts = timestamp(now),
                            !.entry = ServerEntry(now, text), !.fs = fs,
                            !.writes = IF fs = "open_error" THEN 0 ELSE 1,
                            !.code = IF fs = "ok" THEN 200 ELSE 500,
                            !.json = TRUE,
                            !.status = IF fs = "ok" THEN "ok" ELSE "error"]

LogText(req, now, fs, k) ==
    /\ nOps < MaxOps
    /\ IF ServerWrites(req)
       THEN FsChoice(ServerEntry(now, PayloadText(req.text)), fs, k)
       ELSE fs = "ok" /\ k = 0 /\ now = CHOOSE t \in Clocks : TRUE
    /\ file' = IF ServerWrites(req)
               THEN AppendToFile(file, ServerEntry(now, PayloadText(req.text)), fs, k)
               ELSE file
    /\ last' = log_text(file, req, now, fs)
    /\ prev' = last
    /\ nOps' = nOps + 1
    /\ UNCHANGED <<commits, remote, pc, pline, ppos, written, returned>>

----------------------------------------------------------------------------
(* logger.py: commit_log *)

REPLACEMENT == "U+FFFD"

\* the character of an ASCII byte of the captured output
Chr(b) == IF b = 97 THEN "a" ELSE IF b = 10 THEN LF ELSE "?"

\* bytes.decode(errors="replace") on ASCII bytes and on bytes 0xF8..0xFF, which
\* are valid nowhere in UTF-8
decode(bs) == [i \in 1..Len(bs) |-> IF bs[i] < 128 THEN Chr(bs[i]) ELSE REPLACEMENT]

\* captured output of a git process that exits with a non-zero status
Outputs == { <<97, 255>> }

OkOutcome == [t |-> "ok", output |-> <<>>]

\* how one invocation of git ends: exit status 0, a non-zero exit status
\* (CalledProcessError with the captured output), no executable
\* (FileNotFoundError), or another error when starting the process
\* (PermissionError, BlockingIOError, ...)
GitOutcomes ==
    { [t |-> x, output |-> <<>>] : x \in {"ok", "missing", "oserror"} }
    \cup { [t |-> "exit", output |-> o] : o \in Outputs }

MessageArgs == { None, <<"m">> }
PathArgs == { None }

\* file_path or LOG_FILE
CommitPath(path) == IF path = None \/ path = <<>> THEN LOG_FILE ELSE path

\* commit_message or f"Auto log update: {timestamp()}"
CommitMsg(msg, now) ==
    IF msg = None \/ msg = <<>> THEN Str_Auto_log_update \o timestamp(now) ELSE msg

\* the suffix forgotten
SuccessOutNoSuffix(push) == Str_committed

\* out = "committed"; if push: ...; out += " and pushed"
SuccessOut(push) == IF push THEN Str_committed \o Str_and_pushed ELSE Str_committed

\* the except clauses: how the call ends when an invocation of git failed
Except(call, oc) ==
    CASE oc.t = "exit" ->
            [call EXCEPT !.outcome = "returned", !.ok = FALSE, !.out = decode(oc.output),
                         !.output = oc.output]
      [] oc.t = "missing" ->
            [call EXCEPT !.outcome = "returned", !.ok = FALSE, !.out = Str_git_not_found]
      [] OTHER ->
            [call EXCEPT !.outcome = "raised"]

\* the body of the try block: git add, git commit and, if push, git push;
\* o[i] is how the i-th invocation ends if it is made
TryBlock(call, push, o) ==
    IF o[1].t # "ok"
    THEN Except([call EXCEPT !.invoked = <<"add">>, !.outcomes = <<o[1].t>>], o[1])
    ELSE IF o[2].t # "ok"
    THEN Except([call EXCEPT !.invoked = <<"add", "commit">>,
                             !.outcomes = <<o[1].t, o[2].t>>], o[2])
    ELSE IF push
    THEN IF o[3].t # "ok"
         THEN Except([call EXCEPT !.invoked = <<"add", "commit", "push">>,
                                  !.outcomes = <<o[1].t, o[2].t, o[3].t>>], o[3])
         ELSE [call EXCEPT !.invoked = <<"add", "commit", "push">>,
                           !.outcomes = <<o[1].t, o[2].t, o[3].t>>,
                           !.outcome = "returned", !.ok = TRUE, !.out = SuccessOut(push)]
    ELSE [call EXCEPT !.invoked = <<"add", "commit">>,
                      !.outcomes = <<o[1].t, o[2].t>>,
                      !.outcome = "returned", !.ok = TRUE, !.out = SuccessOut(push)]

\* whether the call made the invocation step and it exited with status 0
Succeeded(call, step) ==
    \E i \in 1..Len(call.invoked) : call.invoked[i] = step /\ call.outcomes[i] = "ok"

\* the call commit_log(msg, path, push) made on the repository repo
commit_log(repo, msg, path, push, now, o) ==
    LET call == TryBlock([NoCall EXCEPT !.op = "commit_log", !.push = push,
                                        !.repo = Len(repo)], push, o)
    IN IF Succeeded(call, "commit")
       THEN [call EXCEPT !.msg = CommitMsg(msg, now), !.text = CommitPath(path)]
       ELSE call

\* the local repository after the call: a successful git commit adds a
\* commit, and no invocation removes one
RepoAfter(repo, call) ==
    IF Succeeded(call, "commit")
    THEN Append(repo, [msg |-> call.msg, path |-> call.text])
    ELSE repo

\* the inputs that describe the same call once: the outcome of an invocation
\* the call may leave out is given as ok, and the clock, which only the default
\* message reads, is fixed when a message is passed
GitChoice(msg, push, now, o1, o2, o3) ==
    /\ (msg # None /\ msg # <<>>) => now = CHOOSE t \in Clocks : TRUE
    /\ o1.t # "ok" => o2 = OkOutcome
    /\ (o1.t # "ok" \/ o2.t # "ok" \/ ~push) => o3 = OkOutcome

CommitLog(msg, path, push, now, o1, o2, o3) ==
    /\ nOps < MaxOps
    /\ GitChoice(msg, push, now, o1, o2, o3)
    /\ LET call == [commit_log(commits, msg, path, push, now, <<o1, o2, o3>>)
                       EXCEPT !.pre = file]
       IN /\ last' = call
          /\ commits' = RepoAfter(commits, call)
          /\ remote' = IF Succeeded(call, "push") THEN RepoAfter(commits, call) ELSE remote
    /\ prev' = last
    /\ nOps' = nOps + 1
    /\ UNCHANGED <<file, pc, pline, ppos, written, returned>>

----------------------------------------------------------------------------
(* The sequential specification: calls made one after the other *)

Procs == 1..NumProcs

Init ==
    /\ file = <<>>
    /\ commits = <<>>
    /\ remote = <<>>
    /\ last = NoCall
    /\ prev = NoCall
    /\ nOps = 0
    /\ pc = [p \in Procs |-> "idle"]
    /\ pline = [p \in Procs |-> <<>>]
    /\ ppos = [p \in Procs |-> 0]
    /\ written = <<>>
    /\ returned = 0

Next ==
    \/ \E a \in AppendArgs, now \in Clocks, fs \in FsOutcomes :
          \E k \in PartialLens(LogLine(now, a.kind, a.text)) : AppendLog(a, now, fs, k)
    \/ \E req \in Requests, now \in Clocks, fs \in FsOutcomes :
          \E k \in PartialLens(ServerEntry(now, PayloadText(req.text))) :
             LogText(req, now, fs, k)
    \/ \E msg \in MessageArgs, path \in PathArgs, push \in BOOLEAN, now \in Clocks,
          o1 \in GitOutcomes, o2 \in GitOutcomes, o3 \in GitOutcomes :
          CommitLog(msg, path, push, now, o1, o2, o3)

Spec == Init /\ [][Next]_vars

----------------------------------------------------------------------------
(* The concurrent specification: independent processes that call append_log *)
(* on the same file, a step at a time                                       *)

\* line 25: the process reads the clock and builds its line
Call(p, a, now) ==
    /\ pc[p] = "idle"
    /\ returned + Cardinality({q \in Procs : pc[q] # "idle"}) < MaxCalls
    /\ pline' = [pline EXCEPT ![p] = LogLine(now, a.kind, a.text)]
    /\ pc' = [pc EXCEPT ![p] = "open"]
    /\ UNCHANGED <<file, commits, remote, last, prev, nOps, ppos, written, returned>>

\* line 26: open(LOG_FILE, "a")
Open(p) ==
    /\ pc[p] = "open"
    /\ ppos' = [ppos EXCEPT ![p] = Len(OpenAppend(file))]
    /\ file' = OpenAppend(file)
    /\ pc' = [pc EXCEPT ![p] = "write"]
    /\ UNCHANGED <<commits, remote, last, prev, nOps, pline, written, returned>>

\* line 27 and the end of the with block: the buffered line is written by one
\* write, and the call returns
Write(p) ==
    /\ pc[p] = "write"
    /\ file' = WriteAppend(file, ppos[p], pline[p])
    /\ written' = Append(written, [proc |-> p, data |-> pline[p], whole |-> TRUE])
    /\ returned' = returned + 1
    /\ pc' = [pc EXCEPT ![p] = "idle"]
    /\ UNCHANGED <<commits, remote, last, prev, nOps, pline, ppos>>

\* open() raises: the call ends with the error
OpenFails(p) ==
    /\ pc[p] = "open"
    /\ pc' = [pc EXCEPT ![p] = "raised"]
    /\ UNCHANGED <<file, commits, remote, last, prev, nOps, pline, ppos, written, returned>>

\* the write raises after k characters reached the file: the call ends with
\* the error
WriteFails(p, k) ==
    /\ pc[p] = "write"
    /\ file' = WriteAppend(file, ppos[p], SubSeq(pline[p], 1, k))
    /\ written' = Append(written, [proc |-> p, data |-> SubSeq(pline[p], 1, k),
                                   whole |-> FALSE])
    /\ pc' = [pc EXCEPT ![p] = "raised"]
    /\ UNCHANGED <<commits, remote, last, prev, nOps, pline, ppos, returned>>

NextConc ==
    \/ \E p \in Procs, a \in AppendArgs, now \in Clocks : Call(p, a, now)
    \/ \E p \in Procs : Open(p)
    \/ \E p \in Procs : Write(p)
    \/ \E p \in Procs : OpenFails(p)
    \/ \E p \in Procs : \E k \in PartialLens(pline[p]) : WriteFails(p, k)

SpecConc == Init /\ [][NextConc]_vars

----------------------------------------------------------------------------
(* Reading the log file back *)

\* s has the form YYYY-MM-DD HH:MM:SS.mmm UTC
IsTimestamp(s) ==
    /\ Len(s) = 27
    /\ \A i \in {1, 2, 3, 4, 6, 7, 9, 10, 12, 13, 15, 16, 18, 19, 21, 22, 23} : IsDigit(s[i])
    /\ s[5] = "-" /\ s[8] = "-" /\ s[11] = " " /\ s[14] = ":" /\ s[17] = ":"
    /\ s[20] = "."
    /\ SubSeq(s, 24, 27) = Str_UTC

\* positions at which the kind field of the line may end
KindEnds(line) == {j \in 32..(Len(line) - 1) : line[j] = "]" /\ line[j + 1] = " "}

\* the line has the form [<timestamp>] [<kind>] <text>
Parsable(line) ==
    /\ Len(line) >= 33
    /\ line[1] = "["
    /\ IsTimestamp(SubSeq(line, 2, 28))
    /\ SubSeq(line, 29, 31) = <<"]", " ", "[">>
    /\ KindEnds(line) # {}

\* the (timestamp, kind, text) of a line of that form
Parse(line) ==
    LET j == CHOOSE e \in KindEnds(line) : \A f \in KindEnds(line) : e <= f
    IN <<SubSeq(line, 2, 28), SubSeq(line, 32, j - 1), SubSeq(line, j + 2, Len(line))>>

\* what the last call added to the file
Added(call) == SubSeq(file, Len(call.pre) + 1, Len(file))

----------------------------------------------------------------------------
(* Claims *)

Steps == <<"add", "commit", "push">>

Failed(call) == \E i \in 1..Len(call.outcomes) : call.outcomes[i] # "ok"

\* C1: in commit_log the invocations are made in the order stage, commit,
\* push; if stage fails, commit and push are not invoked, if commit fails, push
\* is not invoked, and in both cases the call returns ok = false.
C1_FailedStepEndsCall ==
    last.op = "commit_log" =>
        /\ IsPrefix(last.invoked, Steps)
        /\ last.outcomes[1] # "ok" =>
              last.invoked = <<"add">> /\ last.outcome = "returned" /\ ~last.ok
        /\ (Len(last.outcomes) >= 2 /\ last.outcomes[1] = "ok" /\ last.outcomes[2] # "ok") =>
              last.invoked = <<"add", "commit">> /\ last.outcome = "returned" /\ ~last.ok

\* C2: when commit_log is called with push = true, stage and commit succeed
\* and push fails, the call returns ok = false and the commit it made is in
\* the local repository afterwards.
C2_PushFailureKeepsCommit ==
    (last.op = "commit_log" /\ last.push /\ Len(last.outcomes) = 3 /\ last.outcomes[3] # "ok") =>
        /\ last.outcome = "returned" /\ ~last.ok
        /\ Len(commits) = last.repo + 1
        /\ commits[Len(commits)].msg = last.msg

\* C3: no exception escapes commit_log: whatever the way an invocation of git
\* fails, the call returns, with ok = false.
C3_NoExceptionEscapes ==
    last.op = "commit_log" =>
        /\ last.outcome = "returned"
        /\ Failed(last) => ~last.ok

\* the decoded text of the captured bytes, a character per byte
IsDecoded(text, bytes) ==
    /\ Len(text) = Len(bytes)
    /\ \A i \in 1..Len(bytes) :
          text[i] = (IF bytes[i] = 97 THEN "a" ELSE IF bytes[i] = 255 THEN REPLACEMENT ELSE "?")

\* the result table of commit_log, with the text given for a missing executable
ResultTable(call, notFound) ==
    LET n == Len(call.outcomes)
        f == call.outcomes[n]
    IN CASE f = "ok" /\ ~call.push ->
               n = 2 /\ call.ok /\ call.out = Str_committed
         [] f = "ok" /\ call.push ->
               n = 3 /\ call.ok /\ call.out = Str_committed \o Str_and_pushed
         [] f = "exit" -> ~call.ok /\ IsDecoded(call.out, call.output)
         [] f = "missing" -> ~call.ok /\ call.out = notFound
         [] OTHER -> FALSE

C5_AppendOnly ==
    last.op # "none" =>
        /\ IsPrefix(last.pre, file)
        /\ (last.op = "append_log" /\ last.outcome = "returned") =>
              LineCount(file) = LineCount(last.pre) + Len(Lines(last.entry))

C5_Witness ==
    /\ last.op = "append_log" /\ last.outcome = "returned"
    /\ last.text = <<"a", LF, "b">>
    /\ prev.op = "log_text" /\ prev.code = 200
    /\ last.pre # <<>>
    /\ LineCount(file) = 3

\* C6: each append_log call appends exactly one line: after two successive
\* calls the file has two more lines, in call order, and each parses into the
\* (timestamp, kind, text) of its call.
C6_OneLinePerCall ==
    /\ (last.op = "append_log" /\ last.outcome = "returned") =>
          Len(Lines(Added(last))) = 1
    /\ (last.op = "append_log" /\ last.outcome = "returned"
        /\ prev.op = "append_log" /\ prev.outcome = "returned") =>
          LET added == Lines(Added(prev))
          IN /\ Len(added) = 2
             /\ Parsable(added[1]) /\ Parse(added[1]) = <<prev.ts, prev.kind, prev.text>>
             /\ Parsable(added[2]) /\ Parse(added[2]) = <<last.ts, last.kind, last.text>>

\* C7: every line of logs/txt.log has the form [<timestamp>] [<kind>] <text>,
\* after any sequence of writes by append_log and by the POST /log handler.
C7_LineFormat ==
    \A i \in 1..Len(Lines(file)) : Parsable(Lines(file)[i])

\* C8: with several processes calling append_log on the same file without
\* locking, in every interleaving the content of the file stays a prefix of
\* its later content, and the entry of a call that returns is in the file
\* whole, appended by one step (so no entry is split, and none is lost).
C8_WholeEntries ==
    [][ /\ IsPrefix(file, file')
        /\ \A p \in Procs :
              (pc[p] = "write" /\ pc'[p] = "idle") => file' = file \o pline[p] ]_vars

C8_Witness ==
    /\ returned = 2
    /\ Len(written) = 2
    /\ written[1].proc # written[2].proc
    /\ ppos[written[2].proc] = 0
    /\ file = written[1].data \o written[2].data

\* C9: a file system error in append_log propagates to the caller (no path
\* is returned) after one attempt; a failure of an invocation of git in
\* commit_log is never propagated, and each of stage, commit and push is
\* invoked once at most.
C9_ErrorPropagation ==
    /\ (last.op = "append_log" /\ last.fs # "ok") =>
          last.outcome = "raised" /\ last.ret = None /\ last.writes <= 1
    /\ last.op = "commit_log" =>
          /\ last.outcome # "raised"
          /\ \A i, j \in 1..Len(last.invoked) :
                last.invoked[i] = last.invoked[j] => i = j

\* C10: the POST /log handler answers every request with a JSON status object
\* and 200, 400 or 500: 400 and no change of the file for a request that is
\* not JSON; 200 and one entry appended when the write succeeds; 500 with
\* status "error" when the write fails; 200 only if the entry was appended.
C10_JsonStatusAnswer ==
    last.op = "log_text" =>
        /\ last.json
        /\ last.code \in {200, 400, 500}
        /\ last.req = "none" => (last.code = 400 /\ file = last.pre)
        /\ last.fs = "ok" => (last.code = 200 /\ file = last.pre \o last.entry)
        /\ last.fs \in {"open_error", "write_error"} =>
              (last.code = 500 /\ last.status = "error")
        /\ last.code = 200 => file = last.pre \o last.entry

====
